---- MODULE Spec2Model ----
(***************************************************************************)
(* A model of ScriptureNames: the verse segmenter of text_retriever.py,    *)
(* the batch extraction and store of names_extractor.py, and the           *)
(* pagination pipeline and canto driver of pipeline.py.                    *)
(*                                                                         *)
(* Text is a sequence of one-character strings, so that the regular        *)
(* expressions of the segmenter are computed character by character.       *)
(***************************************************************************)
EXTENDS Integers, Sequences, FiniteSets, TLC

VARIABLES
    rows,            \* text_retriever.py:99   unformatted_texts (the rows fetched)
    formatted,       \* text_retriever.py:106  formatted_texts (the rows without markup)
    split_texts,     \* text_retriever.py:135  the list get_texts_from_chapter returns
    seg_pc,          \* "input" before the segmentation ran, "done" after
    catalog,         \* text_retriever.py:78   chapters: what list_all_sb_chapters returns
    store,           \* the file sb_canto<c>_chapter<k>_names.json of every chapter
    entry,           \* the function the script called: "chapter" or "sb"
    canto,           \* pipeline.py:33  canto of get_names_from_sb / the argument
    chapter,         \* pipeline.py:33  chapter of get_names_from_sb / the argument
    drv_pc,          \* where get_names_from_sb stands
    processed,       \* history: the chapters a pipeline invocation has located
    pc,              \* where get_names_from_chapter stands
    raised,          \* the exception that left get_names_from_chapter
    first_text_record, \* text_retriever.py:86  first_text_record
    last_text_record,  \* text_retriever.py:86  last_text_record
    texts,           \* pipeline.py:8   texts
    curr_iter,       \* pipeline.py:9   curr_iter
    max_iter,        \* pipeline.py:9   max_iter
    source_str,      \* pipeline.py:21  the units of the batch being extracted
    existing_names,  \* names_extractor.py:88  existing_names of extract_names
    first_response,  \* names_extractor.py:167 the records of round 1
    second_response, \* names_extractor.py:202 the records of round 2
    parsed_none,     \* names_extractor.py:218 second_response.parsed is None
    found_names,     \* names_extractor.py:218 what extract_names returns
    store0,          \* history: the chapter's file when the pipeline started
    batches,         \* history: the batches this pipeline run has issued
    rounds,          \* history: both rounds' records of every batch of this run
    events           \* history: the requests, responses and appends of this run

segVars == <<rows, formatted, split_texts, seg_pc>>

dbVars == <<catalog, store>>

drvVars == <<entry, canto, chapter, drv_pc, processed>>

pipeVars == <<pc, raised, texts, curr_iter, max_iter, source_str, existing_names,
              first_response, second_response, parsed_none, found_names,
              store0, batches, rounds, first_text_record, last_text_record,
              events>>

-----------------------------------------------------------------------------
(* Bounds *)

\* the number of tokens a chapter's rows are built from
MaxTokens == 4

\* the number of characters of a row whose markup is stripped
MaxRowLen == 5

\* the most verse units a chapter has when the script processes one chapter
MaxUnits == 41

\* the most verse units a chapter has when the script walks all the cantos
DriverMaxUnits == 1

-----------------------------------------------------------------------------
(* Characters *)

Digits == {"0", "1", "2", "3", "5"}

\* the characters Python's \w matches, of those the model uses
WordChars == {"T", "E", "X", "S", "a", "_"} \cup Digits

\* the characters str.strip() removes, of those the model uses
Whitespace == {" "}

Max(S) == CHOOSE x \in S : \A y \in S : y <= x

Min2(a, b) == IF a <= b THEN a ELSE b

\* s[i:] of Python, for the 1-based i
Tail_from(s, i) == SubSeq(s, i, Len(s))

\* s.startswith(lit)
startswith(s, lit) ==
    /\ Len(lit) <= Len(s)
    /\ \A k \in 1..Len(lit) : s[k] = lit[k]

\* lit occurs in s at position i
HasAt(s, i, lit) ==
    /\ i >= 1
    /\ i + Len(lit) - 1 <= Len(s)
    /\ \A k \in 1..Len(lit) : s[i + k - 1] = lit[k]

RECURSIVE lstrip(_)
lstrip(s) ==
    IF s = <<>> THEN <<>>
    ELSE IF Head(s) \in Whitespace THEN lstrip(Tail(s)) ELSE s

RECURSIVE rstrip(_)
rstrip(s) ==
    IF s = <<>> THEN <<>>
    ELSE IF s[Len(s)] \in Whitespace THEN rstrip(SubSeq(s, 1, Len(s) - 1)) ELSE s

\* piece.strip()
strip(s) == rstrip(lstrip(s))

\* sep.join(parts)
RECURSIVE join(_, _)
join(sep, parts) ==
    IF parts = <<>> THEN <<>>
    ELSE IF Len(parts) = 1 THEN parts[1]
    ELSE parts[1] \o sep \o join(sep, Tail(parts))

-----------------------------------------------------------------------------
(* re.sub(r'<.*?>', ' ', text): every '<' that has a later '>' on its line  *)
(* is replaced, with everything up to the nearest such '>', by one space;    *)
(* the scan goes on after the '>'. The dot matches no line break.            *)

\* the position of the first ">" at or after i that no line break comes
\* before, 0 when there is none
RECURSIVE NextGt(_, _)
NextGt(s, i) ==
    IF i > Len(s) THEN 0
    ELSE IF s[i] = ">" THEN i
    ELSE IF s[i] = "\n" THEN 0
    ELSE NextGt(s, i + 1)

RECURSIVE re_sub_from(_, _)
re_sub_from(s, i) ==
    IF i > Len(s) THEN <<>>
    ELSE IF s[i] = "<" /\ NextGt(s, i + 1) # 0
         THEN <<" ">> \o re_sub_from(s, NextGt(s, i + 1) + 1)
         ELSE <<s[i]>> \o re_sub_from(s, i + 1)

re_sub_tags(s) == re_sub_from(s, 1)

-----------------------------------------------------------------------------
(* re.split(r'\b(TEXT \d+|TEXTS \d+-\d+)\b', concatenated_text)              *)

TEXT_sp == <<"T", "E", "X", "T", " ">>
TEXTS_sp == <<"T", "E", "X", "T", "S", " ">>

\* \b before position i (i in 1..Len(s)+1): exactly one side is a word character
WordBoundary(s, i) ==
    LET before == i > 1 /\ i - 1 <= Len(s) /\ s[i - 1] \in WordChars
        after == i >= 1 /\ i <= Len(s) /\ s[i] \in WordChars
    IN  before # after

\* the length of the run of digits that starts at i
RECURSIVE DigitRun(_, _)
DigitRun(s, i) ==
    IF i <= Len(s) /\ s[i] \in Digits THEN 1 + DigitRun(s, i + 1) ELSE 0

\* \d+\b at i: the greedy \d+ gives digits back until \b holds after it.
\* The position after the match, 0 when there is no match.
DigitsThenBoundary(s, i) ==
    LET ks == {k \in 1..DigitRun(s, i) : WordBoundary(s, i + k)}
    IN  IF ks = {} THEN 0 ELSE i + Max(ks)

\* \d+-\d+\b at i
RangeThenBoundary(s, i) ==
    LET ks == {k \in 1..DigitRun(s, i) :
                  /\ HasAt(s, i + k, <<"-">>)
                  /\ DigitsThenBoundary(s, i + k + 1) # 0}
    IN  IF ks = {} THEN 0 ELSE DigitsThenBoundary(s, i + Max(ks) + 1)

\* the pattern without its leading \b
MatchMarker_unanchored(s, i) ==
    LET alt1 == IF HasAt(s, i, TEXT_sp)
                THEN DigitsThenBoundary(s, i + Len(TEXT_sp)) ELSE 0
        alt2 == IF HasAt(s, i, TEXTS_sp)
                THEN RangeThenBoundary(s, i + Len(TEXTS_sp)) ELSE 0
    IN  IF alt1 # 0 THEN alt1 ELSE alt2

\* a match of the whole pattern that starts at i: the position after it, or 0.
\* The first alternative is tried first.
MatchMarker(s, i) ==
    IF ~WordBoundary(s, i) THEN 0
    ELSE LET alt1 == IF HasAt(s, i, TEXT_sp)
                     THEN DigitsThenBoundary(s, i + Len(TEXT_sp)) ELSE 0
             alt2 == IF HasAt(s, i, TEXTS_sp)
                     THEN RangeThenBoundary(s, i + Len(TEXTS_sp)) ELSE 0
         IN  IF alt1 # 0 THEN alt1 ELSE alt2

\* the scan of re.split: pos is where the next match is looked for, last is
\* where the piece being collected starts. A match contributes the piece
\* before it and then, as a piece of its own, the captured group.
RECURSIVE re_split_from(_, _, _)
re_split_from(s, pos, last) ==
    IF pos > Len(s) THEN <<SubSeq(s, last, Len(s))>>
    ELSE LET e == MatchMarker(s, pos)
         IN  IF e # 0
             THEN <<SubSeq(s, last, pos - 1), SubSeq(s, pos, e - 1)>>
                      \o re_split_from(s, e, e)
             ELSE re_split_from(s, pos + 1, last)

re_split(s) == re_split_from(s, 1, 1)

\* the start positions of the matches re.split finds, in order
RECURSIVE SplitPoints(_, _)
SplitPoints(s, pos) ==
    IF pos > Len(s) THEN <<>>
    ELSE LET e == MatchMarker(s, pos)
         IN  IF e # 0 THEN <<pos>> \o SplitPoints(s, e)
             ELSE SplitPoints(s, pos + 1)

-----------------------------------------------------------------------------
(* get_texts_from_chapter, from the rows fetched to the list returned *)

\* lines 106-111
formatted_texts(rs) == [i \in 1..Len(rs) |-> re_sub_tags(rs[i])]

\* line 123
concatenated_text(rs) == join(<<" ">>, formatted_texts(rs))

\* a comprehension that only drops the empty pieces
keeps_piece_nonempty(piece) == strip(piece) # <<>>

\* the condition of the comprehension of line 135
keeps_piece(piece) ==
    \/ startswith(strip(piece), TEXT_sp)
    \/ startswith(strip(piece), TEXTS_sp)

\* the comprehension of line 135
RECURSIVE strip_and_filter(_)
strip_and_filter(pieces) ==
    IF pieces = <<>> THEN <<>>
    ELSE IF keeps_piece(Head(pieces))
         THEN <<strip(Head(pieces))>> \o strip_and_filter(Tail(pieces))
         ELSE strip_and_filter(Tail(pieces))

\* lines 106-143
segment(rs) == strip_and_filter(re_split(concatenated_text(rs)))


-----------------------------------------------------------------------------
(* The store files and the generative service *)

\* pipeline.py:9,17  the batch size
BatchSize == 20

\* pipeline.py:34  the last canto
MaxCanto == 12

\* records the service returns (AugmentedSastricName, names_extractor.py:15-24)
recA == [name |-> "Hari", definition |-> "d1", context |-> "c1",
         references |-> <<"SB 1.1.1">>, category |-> "Names of Krishna",
         gender |-> "Male"]
recB == [name |-> "Radha", definition |-> "d2", context |-> "c2",
         references |-> <<"SB 1.1.2">>, category |-> "Names of Krishna's female devotees",
         gender |-> "Female"]

\* a stored record that has no 'name' (the file was not written by this script)
recNoName == [definition |-> "d0"]

\* the validated record lists a round of the service can answer with
Responses == {<<>>, <<recA>>, <<recB>>}

\* a store file: absent, not JSON, not UTF-8, not readable, JSON that is not a
\* list, or a JSON list
Missing == [kind |-> "missing", data |-> <<>>]
Malformed == [kind |-> "malformed", data |-> <<>>]
Undecodable == [kind |-> "undecodable", data |-> <<>>]
Unreadable == [kind |-> "unreadable", data |-> <<>>]
ObjectFile == [kind |-> "object", data |-> <<>>]
ListFile(recs) == [kind |-> "list", data |-> recs]

InitialFiles == {Missing, Malformed, Undecodable, Unreadable, ObjectFile,
                 ListFile(<<recA>>), ListFile(<<recNoName>>)}

\* the chapters the content tree may hold when all cantos are walked
Universe == {<<1, 1>>, <<1, 2>>, <<1, 3>>, <<2, 1>>, <<MaxCanto, 1>>, <<MaxCanto + 1, 1>>}

\* pipeline.py:41  the chapter the script processes
ScriptChapter == <<5, 2>>

StoreKeys == Universe \cup {ScriptChapter}

\* str(n) of an f-string, for the numbers a canto or a chapter takes
DecimalDigits == <<"0", "1", "2", "3", "4", "5", "6", "7", "8", "9">>
str(n) ==
    IF n < 10 THEN <<DecimalDigits[n + 1]>>
    ELSE <<DecimalDigits[(n \div 10) + 1], DecimalDigits[(n % 10) + 1]>>

\* a search string without the book's prefix
canto_chapter_bare(c, k) == str(c) \o <<".">> \o str(k) \o <<":">>

\* text_retriever.py:74  f"SB {canto}.{chapter}:"
canto_chapter(c, k) == <<"S", "B", " ">> \o str(c) \o <<".">> \o str(k) \o <<":">>

\* text_retriever.py:83  `sub in title`
Contains(sub, title) ==
    \E i \in 1..(Len(title) - Len(sub) + 1) : HasAt(title, i, sub)

\* text_retriever.py:5-44: a row of list_all_sb_chapters, the tuple
\* (parent.title, child.title, child.record, child.next_sibling)
ChapterSet(c, k, rec, sibling) ==
    <<<<"C", "a", "n", "t", "o", " ">> \o str(c),
      <<"S", "B", " ">> \o str(c) \o <<".">> \o str(k) \o <<":", " ", "a">>,
      rec,
      sibling>>

\* text_retriever.py:82-83: the first chapter_set, in the order of the list,
\* whose title holds the search string; 0 when the loop ends without one
locate(chapters, c, k) ==
    LET hits == {i \in 1..Len(chapters) : Contains(canto_chapter(c, k), chapters[i][2])}
    IN  IF hits = {} THEN 0
        ELSE CHOOSE i \in hits : \A j \in hits : i <= j

\* the record numbers of the content tree when all cantos are walked: the
\* chapters of a canto follow each other, each one's next_sibling the next
RecordOf(c, k) == 10 * c + k

RECURSIVE TreeFrom(_, _, _)
TreeFrom(S, c, k) ==
    IF c > MaxCanto + 1 THEN <<>>
    ELSE IF k > 3 THEN TreeFrom(S, c + 1, 1)
    ELSE IF <<c, k>> \in S
         THEN <<ChapterSet(c, k, RecordOf(c, k), RecordOf(c, k + 1))>>
              \o TreeFrom(S, c, k + 1)
         ELSE TreeFrom(S, c, k + 1)

\* the chapters of S in the order of the tree
TreeOf(S) == TreeFrom(S, 1, 1)

\* the catalogs the script's chapter is looked up in: none, the chapter alone
\* with a span of two records, of one record, or with no next sibling; a canto
\* whose number ends in the chapter's canto; that canto before the chapter;
\* the chapter's title twice
ScriptCatalogs ==
    {<<>>,
     <<ChapterSet(5, 2, 1, 2)>>,
     <<ChapterSet(5, 2, 2, 2)>>,
     <<ChapterSet(5, 2, 2, 0)>>,
     <<ChapterSet(15, 2, 1, 2)>>,
     <<ChapterSet(15, 2, 1, 2), ChapterSet(5, 2, 3, 0)>>,
     <<ChapterSet(5, 2, 3, 1), ChapterSet(5, 2, 1, 2)>>}

\* load_existing_names when the path it opens is never there
load_existing_names_missing(f) == <<>>

\* names_extractor.py:28-49: the names of the stored records, [] when the file
\* is missing (FileNotFoundError) or anything else goes wrong (Exception), as
\* when an item has no 'name'
load_existing_names(f) ==
    IF f.kind = "list" /\ \A i \in 1..Len(f.data) : "name" \in DOMAIN f.data[i]
    THEN [i \in 1..Len(f.data) |-> f.data[i].name]
    ELSE <<>>

\* names_extractor.py:38-43: what the body of the try raises
load_raises(f) ==
    IF f.kind = "missing" THEN "FileNotFoundError"
    ELSE IF f.kind = "malformed" THEN "JSONDecodeError"
    ELSE IF f.kind = "undecodable" THEN "UnicodeDecodeError"
    ELSE IF f.kind = "unreadable" THEN "PermissionError"
    ELSE IF f.kind = "object" THEN "TypeError"
    ELSE IF \E i \in 1..Len(f.data) : "name" \notin DOMAIN f.data[i] THEN "KeyError"
    ELSE "none"

\* handlers that catch the missing file only
load_catches_missing(e) == e = "FileNotFoundError"

\* names_extractor.py:44-49: except FileNotFoundError, except Exception
load_catches(e) == e = "FileNotFoundError" \/ e # "none"

\* the exception load_existing_names lets out to extract_names
load_escapes(f) ==
    IF load_raises(f) # "none" /\ ~load_catches(load_raises(f))
    THEN load_raises(f) ELSE "none"

\* a read that always starts from an empty list
read_existing_data_fresh(f) == <<>>

\* names_extractor.py:230-239: existing_data after the read
read_existing_data(f) ==
    IF f.kind = "list" THEN f.data ELSE <<>>

\* names_extractor.py:230-243: what the read-modify-write raises: the read of
\* a file that is not UTF-8 (UnicodeDecodeError) or not readable (OSError),
\* the extend of what is not a list (AttributeError)
read_raises(f) ==
    IF f.kind = "undecodable" THEN "StoreDecodeError"
    ELSE IF f.kind = "unreadable" THEN "StoreReadError"
    ELSE IF f.kind = "object" THEN "StoreTypeError"
    ELSE "none"

\* a write that replaces what the file held
appended_file_overwrite(f, names_data) == ListFile(names_data)

\* names_extractor.py:243-248: the file written back
appended_file(f, names_data) == ListFile(read_existing_data(f) \o names_data)

\* extract_names returning both rounds' records
returned_names_merged(r1, r2) == r1 \o r2

\* names_extractor.py:218-219: the value extract_names returns
returned_names(r1, r2) == r2

\* a Content of a request or of a response (names_extractor.py:192-196)
Content(role, prompt, source, exclude, records) ==
    [role |-> role, prompt |-> prompt, source |-> source, exclude |-> exclude,
     records |-> records]

\* names_extractor.py:94-154: the first prompt, the source text and the
\* command with the names to exclude
first_prompt(source, exclude) == Content("user", "first", source, exclude, <<>>)

\* names_extractor.py:181-188: the follow-up instruction
second_prompt == Content("user", "second", <<>>, <<>>, <<>>)

\* names_extractor.py:179: the content of the first response
model_content_for_history(r1) == Content("model", "none", <<>>, <<>>, r1)

\* a second request that leaves the first response out
chat_contents_fresh(fp, r1) == <<fp, second_prompt>>

\* names_extractor.py:192-196
chat_contents(fp, r1) == <<fp, model_content_for_history(r1), second_prompt>>

\* an entry of the history of a run
Event(kind, batch, round, contents) ==
    [kind |-> kind, batch |-> batch, round |-> round, contents |-> contents]

\* a loop that skips a batch
next_iter_skip(it) == it + 2

\* pipeline.py:30  curr_iter += 1
next_iter(it) == it + 1

\* max_iter that counts a last batch even when nothing is left for it
ceil_div_plus_one(n, d) == n \div d + 1

\* max_iter with the quotient rounded down
ceil_div_floor(n, d) == n \div d

\* pipeline.py:9  m.ceil(len(texts) / 20)
ceil_div(n, d) == IF n % d = 0 THEN n \div d ELSE n \div d + 1

\* pipeline.py:16-17
start_index_of(it) == BatchSize * it
step_of(n, it) == Min2(BatchSize, n - start_index_of(it))

\* pipeline.py:21  texts[start_index:start_index + step]
slice(q, start, stop) == SubSeq(q, start + 1, Min2(stop, Len(q)))

\* pipeline.py:38  the exceptions `except ValueError` catches: the locator's
\* ValueError and UnicodeDecodeError, which is a ValueError
IsValueError(e) == e \in {"ChapterNotFound", "StoreDecodeError"}

\* pipeline.py:37  chapter += 1
after_return(c, k) == <<c, k + 1>>

\* a handler that leaves canto and chapter as they are
after_value_error_retry(c, k) == <<c, k>>

\* pipeline.py:39  canto, chapter = canto + 1, 1
after_value_error(c, k) == <<c + 1, 1>>

key == <<canto, chapter>>

\* the chapter's file; a chapter that no file was ever written for has none
file == IF key \in DOMAIN store THEN store[key] ELSE Missing

PipeIdle ==
    /\ pc = "idle"
    /\ raised = "none"
    /\ texts = <<>>
    /\ curr_iter = 0
    /\ max_iter = 0
    /\ source_str = <<>>
    /\ existing_names = <<>>
    /\ first_response = <<>>
    /\ second_response = <<>>
    /\ parsed_none = FALSE
    /\ found_names = <<>>
    /\ store0 = Missing
    /\ batches = <<>>
    /\ rounds = <<>>
    /\ first_text_record = 0
    /\ last_text_record = 0
    /\ events = <<>>

\* the call get_names_from_chapter(canto, chapter) begins
PipeStart ==
    /\ pc' = "locate"
    /\ raised' = "none"
    /\ texts' = <<>>
    /\ curr_iter' = 0
    /\ max_iter' = 0
    /\ source_str' = <<>>
    /\ existing_names' = <<>>
    /\ first_response' = <<>>
    /\ second_response' = <<>>
    /\ parsed_none' = FALSE
    /\ found_names' = <<>>
    /\ store0' = file
    /\ batches' = <<>>
    /\ rounds' = <<>>
    /\ first_text_record' = 0
    /\ last_text_record' = 0
    /\ events' = <<>>

\* the most units the chapter read can have
UnitBound == IF entry = "sb" THEN DriverMaxUnits ELSE MaxUnits

-----------------------------------------------------------------------------
(* The rows a chapter can hold: built from a few tokens, among them the     *)
(* end of a row.                                                            *)

RowBreak == <<"|">>

Tokens == <<
    <<"T", "E", "X", "T", " ", "1">>,
    <<"T", "E", "X", "T", "S", " ", "3", "-", "5">>,
    <<"T", "E", "X", "T">>,
    <<"S">>,
    <<" ">>,
    <<"a">>,
    <<"2">>,
    <<"<">>,
    <<">">>,
    <<"-">>,
    RowBreak >>

\* the rows a sequence of token numbers spells
RECURSIVE BuildRows(_, _)
BuildRows(toks, cur) ==
    IF toks = <<>> THEN <<cur>>
    ELSE IF Tokens[Head(toks)] = RowBreak
         THEN <<cur>> \o BuildRows(Tail(toks), <<>>)
         ELSE BuildRows(Tail(toks), cur \o Tokens[Head(toks)])

RowInputs ==
    {<<>>} \cup
    {BuildRows(t, <<>>) : t \in UNION {[1..n -> 1..Len(Tokens)] : n \in 1..MaxTokens}}

-----------------------------------------------------------------------------
(* The segmenter applied to a chapter's rows *)

SegInit ==
    /\ rows \in RowInputs
    /\ formatted = <<>>
    /\ split_texts = <<>>
    /\ seg_pc = "input"
    /\ catalog = <<>>
    /\ store = [k \in StoreKeys |-> Missing]
    /\ entry = "none"
    /\ canto = 0
    /\ chapter = 0
    /\ drv_pc = "none"
    /\ processed = {}
    /\ PipeIdle

Segment ==
    /\ seg_pc = "input"
    /\ formatted' = formatted_texts(rows)
    /\ split_texts' = segment(rows)
    /\ seg_pc' = "done"
    /\ UNCHANGED <<rows, dbVars, drvVars, pipeVars>>

SegNext == Segment

vars == <<segVars, dbVars, drvVars, pipeVars>>

SegSpec == SegInit /\ [][SegNext]_vars

-----------------------------------------------------------------------------
(* The markup stripping alone (text_retriever.py:106-111), on rows that have *)
(* brackets, text, spaces and line breaks.                                   *)

MarkupChars == {"<", ">", "a", " ", "\n"}

MarkupRows == UNION {[1..n -> MarkupChars] : n \in 0..MaxRowLen}

StripInit ==
    /\ \E r \in MarkupRows : rows = <<r>>
    /\ formatted = <<>>
    /\ split_texts = <<>>
    /\ seg_pc = "input"
    /\ catalog = <<>>
    /\ store = [k \in StoreKeys |-> Missing]
    /\ entry = "none"
    /\ canto = 0
    /\ chapter = 0
    /\ drv_pc = "none"
    /\ processed = {}
    /\ PipeIdle

\* text_retriever.py:106-111: the loop that fills formatted_texts
StripMarkup ==
    /\ seg_pc = "input"
    /\ formatted' = formatted_texts(rows)
    /\ seg_pc' = "stripped"
    /\ UNCHANGED <<rows, split_texts, dbVars, drvVars, pipeVars>>

StripNext == StripMarkup

StripSpec == StripInit /\ [][StripNext]_vars

-----------------------------------------------------------------------------
(* get_names_from_chapter (pipeline.py:3-30), with the calls it makes *)

\* text_retriever.py:82-143: a title of the catalog holds the search string;
\* the rows from first_text_record to last_text_record are read (none when the
\* range is empty) and segmented into n units. pipeline.py:8-9.
LocateFound ==
    /\ pc = "locate"
    /\ locate(catalog, canto, chapter) # 0
    /\ LET chapter_set == catalog[locate(catalog, canto, chapter)]
       IN  /\ first_text_record' = chapter_set[3]
           /\ last_text_record' = chapter_set[4]
           /\ \E n \in 0..(IF chapter_set[3] <= chapter_set[4] THEN UnitBound ELSE 0) :
                  /\ texts' = [i \in 1..n |-> i]
                  /\ max_iter' = ceil_div(n, BatchSize)
    /\ curr_iter' = 0
    /\ processed' = processed \cup {key}
    /\ pc' = "loop"
    /\ UNCHANGED <<segVars, dbVars, entry, canto, chapter, drv_pc, raised, source_str,
                   existing_names, first_response, second_response, parsed_none,
                   found_names, store0, batches, rounds, events>>

\* text_retriever.py:147: no title of the catalog holds "SB <canto>.<chapter>:"
LocateNotFound ==
    /\ pc = "locate"
    /\ locate(catalog, canto, chapter) = 0
    /\ raised' = "ChapterNotFound"
    /\ pc' = "raised"
    /\ UNCHANGED <<segVars, dbVars, drvVars, texts, curr_iter, max_iter, source_str,
                   existing_names, first_response, second_response, parsed_none,
                   found_names, store0, batches, rounds, first_text_record,
                   last_text_record, events>>

\* pipeline.py:13-22 and names_extractor.py:86-175: the next batch is sliced,
\* extract_names loads the names to exclude, builds the first prompt and sends
\* the first request
BeginBatch ==
    /\ pc = "loop"
    /\ curr_iter < max_iter
    /\ LET start_index == start_index_of(curr_iter)
           step == step_of(Len(texts), curr_iter)
       IN  /\ source_str' = slice(texts, start_index, start_index + step)
           /\ batches' = Append(batches, slice(texts, start_index, start_index + step))
    /\ existing_names' = load_existing_names(file)
    /\ first_response' = <<>>
    /\ second_response' = <<>>
    /\ parsed_none' = FALSE
    /\ found_names' = <<>>
    /\ IF load_escapes(file) = "none"
       THEN /\ events' = Append(events,
                    Event("request", curr_iter, 1,
                          <<first_prompt(source_str', existing_names')>>))
            /\ raised' = raised
            /\ pc' = "round1"
       ELSE /\ events' = events
            /\ raised' = load_escapes(file)
            /\ pc' = "raised"
    /\ UNCHANGED <<segVars, dbVars, drvVars, texts, curr_iter, max_iter,
                   store0, rounds, first_text_record, last_text_record>>

\* pipeline.py:13: the loop ends and get_names_from_chapter returns
EndOfChapter ==
    /\ pc = "loop"
    /\ curr_iter >= max_iter
    /\ pc' = "returned"
    /\ UNCHANGED <<segVars, dbVars, drvVars, raised, texts, curr_iter, max_iter,
                   source_str, existing_names, first_response, second_response,
                   parsed_none, found_names, store0, batches, rounds, first_text_record,
                   last_text_record, events>>

\* names_extractor.py:167-210: the service answers round 1 and the second
\* request is sent
Round1 ==
    /\ pc = "round1"
    /\ \E r \in Responses :
          /\ first_response' = r
          /\ events' = events \o
                 <<Event("response", curr_iter, 1, <<model_content_for_history(r)>>),
                   Event("request", curr_iter, 2,
                         chat_contents(first_prompt(source_str, existing_names), r))>>
    /\ pc' = "round2"
    /\ UNCHANGED <<segVars, dbVars, drvVars, raised, texts, curr_iter, max_iter,
                   source_str, existing_names, second_response, parsed_none,
                   found_names, store0, batches, rounds, first_text_record,
                   last_text_record>>

\* names_extractor.py:202-219: the service answers round 2 and extract_names
\* returns
Round2 ==
    /\ pc = "round2"
    /\ \E r \in Responses :
          /\ second_response' = r
          /\ found_names' = returned_names(first_response, r)
          /\ rounds' = Append(rounds, [r1 |-> first_response, r2 |-> r])
          /\ events' = Append(events,
                 Event("response", curr_iter, 2, <<model_content_for_history(r)>>))
    /\ parsed_none' = FALSE
    /\ pc' = "append"
    /\ UNCHANGED <<segVars, dbVars, drvVars, raised, texts, curr_iter, max_iter,
                   source_str, existing_names, first_response, store0, batches,
                   first_text_record, last_text_record>>

\* names_extractor.py:218: the answer of round 2 does not parse, parsed is None
Round2Unparsed ==
    /\ pc = "round2"
    /\ parsed_none' = TRUE
    /\ events' = Append(events, Event("response", curr_iter, 2, <<>>))
    /\ pc' = "append"
    /\ UNCHANGED <<segVars, dbVars, drvVars, raised, texts, curr_iter, max_iter,
                   source_str, existing_names, first_response, second_response,
                   found_names, store0, batches, rounds, first_text_record,
                   last_text_record>>

\* names_extractor.py:167,202: a call of the service raises
ServiceFails ==
    /\ pc \in {"round1", "round2"}
    /\ raised' = "ServiceFailure"
    /\ pc' = "raised"
    /\ UNCHANGED <<segVars, dbVars, drvVars, texts, curr_iter, max_iter, source_str,
                   existing_names, first_response, second_response, parsed_none,
                   found_names, store0, batches, rounds, first_text_record,
                   last_text_record, events>>

\* names_extractor.py:223-248 and pipeline.py:30: the records are appended to
\* the chapter's file and the loop goes on
AppendToStore ==
    /\ pc = "append"
    /\ ~parsed_none
    /\ read_raises(file) = "none"
    /\ store' = [store EXCEPT ![key] = appended_file(file, found_names)]
    /\ events' = Append(events, Event("append", curr_iter, 0, <<>>))
    /\ curr_iter' = next_iter(curr_iter)
    /\ pc' = "loop"
    /\ UNCHANGED <<segVars, catalog, drvVars, raised, texts, max_iter, source_str,
                   existing_names, first_response, second_response, parsed_none,
                   found_names, store0, batches, rounds, first_text_record,
                   last_text_record>>

\* names_extractor.py:226: iterating None raises TypeError;
\* names_extractor.py:232-233: the read raises
AppendFails ==
    /\ pc = "append"
    /\ parsed_none \/ read_raises(file) # "none"
    /\ raised' = IF parsed_none THEN "MalformedResponse" ELSE read_raises(file)
    /\ pc' = "raised"
    /\ UNCHANGED <<segVars, dbVars, drvVars, texts, curr_iter, max_iter, source_str,
                   existing_names, first_response, second_response, parsed_none,
                   found_names, store0, batches, rounds, first_text_record,
                   last_text_record, events>>

PipeNext ==
    \/ LocateFound
    \/ LocateNotFound
    \/ BeginBatch
    \/ EndOfChapter
    \/ Round1
    \/ Round2
    \/ Round2Unparsed
    \/ ServiceFails
    \/ AppendToStore
    \/ AppendFails

\* pipeline.py:41: the script calls get_names_from_chapter(5, 2)
Init ==
    /\ rows = <<>>
    /\ formatted = <<>>
    /\ split_texts = <<>>
    /\ seg_pc = "none"
    /\ catalog \in ScriptCatalogs
    /\ \E f \in InitialFiles :
          store = [k \in StoreKeys |-> IF k = ScriptChapter THEN f ELSE Missing]
    /\ entry = "chapter"
    /\ canto = ScriptChapter[1]
    /\ chapter = ScriptChapter[2]
    /\ drv_pc = "none"
    /\ processed = {}
    /\ pc = "locate"
    /\ raised = "none"
    /\ texts = <<>>
    /\ curr_iter = 0
    /\ max_iter = 0
    /\ source_str = <<>>
    /\ existing_names = <<>>
    /\ first_response = <<>>
    /\ second_response = <<>>
    /\ parsed_none = FALSE
    /\ found_names = <<>>
    /\ store0 = store[ScriptChapter]
    /\ batches = <<>>
    /\ rounds = <<>>
    /\ first_text_record = 0
    /\ last_text_record = 0
    /\ events = <<>>

Next == PipeNext

Spec == Init /\ [][Next]_vars

-----------------------------------------------------------------------------
(* get_names_from_sb (pipeline.py:32-39) *)

\* pipeline.py:34-36: the loop test holds and the pipeline is called
DriverCall ==
    /\ drv_pc = "test"
    /\ canto <= MaxCanto
    /\ drv_pc' = "call"
    /\ PipeStart
    /\ UNCHANGED <<segVars, dbVars, entry, canto, chapter, processed>>

\* pipeline.py:34: the loop test fails and get_names_from_sb returns
DriverExit ==
    /\ drv_pc = "test"
    /\ canto > MaxCanto
    /\ drv_pc' = "done"
    /\ UNCHANGED <<segVars, dbVars, entry, canto, chapter, processed, pipeVars>>

\* pipeline.py:37: the pipeline returned
DriverNextChapter ==
    /\ drv_pc = "call"
    /\ pc = "returned"
    /\ canto' = after_return(canto, chapter)[1]
    /\ chapter' = after_return(canto, chapter)[2]
    /\ drv_pc' = "test"
    /\ pc' = "idle"
    /\ UNCHANGED <<segVars, dbVars, entry, processed, raised, texts, curr_iter, max_iter,
                   source_str, existing_names, first_response, second_response,
                   parsed_none, found_names, store0, batches, rounds, first_text_record,
                   last_text_record, events>>

\* pipeline.py:38-39: the pipeline raised a ValueError
DriverNextCanto ==
    /\ drv_pc = "call"
    /\ pc = "raised"
    /\ IsValueError(raised)
    /\ canto' = after_value_error(canto, chapter)[1]
    /\ chapter' = after_value_error(canto, chapter)[2]
    /\ drv_pc' = "test"
    /\ pc' = "idle"
    /\ UNCHANGED <<segVars, dbVars, entry, processed, raised, texts, curr_iter, max_iter,
                   source_str, existing_names, first_response, second_response,
                   parsed_none, found_names, store0, batches, rounds, first_text_record,
                   last_text_record, events>>

\* pipeline.py:36-38: the pipeline raised something `except ValueError` does
\* not catch, which leaves get_names_from_sb
DriverAbort ==
    /\ drv_pc = "call"
    /\ pc = "raised"
    /\ ~IsValueError(raised)
    /\ drv_pc' = "aborted"
    /\ UNCHANGED <<segVars, dbVars, entry, canto, chapter, processed, pipeVars>>

\* the script calls get_names_from_sb(); at most the first chapter has a file
DriverInit ==
    /\ rows = <<>>
    /\ formatted = <<>>
    /\ split_texts = <<>>
    /\ seg_pc = "none"
    /\ catalog \in {TreeOf(S) : S \in SUBSET Universe}
    /\ \E f \in InitialFiles :
          store = [k \in StoreKeys |-> IF k = <<1, 1>> THEN f ELSE Missing]
    /\ entry = "sb"
    /\ canto = 1
    /\ chapter = 1
    /\ drv_pc = "test"
    /\ processed = {}
    /\ PipeIdle

DriverNext ==
    \/ DriverCall
    \/ DriverExit
    \/ DriverNextChapter
    \/ DriverNextCanto
    \/ DriverAbort
    \/ PipeNext

DriverSpec == DriverInit /\ [][DriverNext]_vars

\* the interpreter keeps running the script: a step that can be taken is taken
DriverFairSpec == DriverSpec /\ WF_vars(DriverNext)

-----------------------------------------------------------------------------
(* What the segmenter is said to return, stated without the regular          *)
(* expression machinery above.                                                *)

\* s[i..e-1] is TEXT <digits> or TEXTS <digits>-<digits>
MarkerWordAt(s, i, e) ==
    \/ /\ HasAt(s, i, TEXT_sp)
       /\ e > i + Len(TEXT_sp)
       /\ e <= Len(s) + 1
       /\ \A k \in (i + Len(TEXT_sp))..(e - 1) : s[k] \in Digits
    \/ /\ HasAt(s, i, TEXTS_sp)
       /\ e <= Len(s) + 1
       /\ \E h \in (i + Len(TEXTS_sp) + 1)..(e - 2) :
              /\ s[h] = "-"
              /\ \A k \in (i + Len(TEXTS_sp))..(h - 1) : s[k] \in Digits
              /\ \A k \in (h + 1)..(e - 1) : s[k] \in Digits

\* s[i..e-1] has no word character right before it or right after it
WholeWord(s, i, e) ==
    /\ (i = 1 \/ s[i - 1] \notin WordChars)
    /\ (e = Len(s) + 1 \/ s[e] \notin WordChars)

\* where a verse marker stands as a whole word
MarkerStarts(s) ==
    {i \in 1..Len(s) :
        \E e \in (i + 1)..(Len(s) + 1) : MarkerWordAt(s, i, e) /\ WholeWord(s, i, e)}

SeqRange(q) == {q[k] : k \in 1..Len(q)}

blob == concatenated_text(rows)

points == SplitPoints(blob, 1)

\* the j-th verse unit: the marker and everything up to the next marker
VerseUnit(j) ==
    strip(SubSeq(blob, points[j],
                 IF j < Len(points) THEN points[j + 1] - 1 ELSE Len(blob)))

RECURSIVE flatten(_)
flatten(q) == IF q = <<>> THEN <<>> ELSE Head(q) \o flatten(Tail(q))

\* s without its whitespace
RECURSIVE squeeze(_)
squeeze(s) ==
    IF s = <<>> THEN <<>>
    ELSE IF Head(s) \in Whitespace THEN squeeze(Tail(s))
         ELSE <<Head(s)>> \o squeeze(Tail(s))

\* C1: every element the segmenter returns is one verse unit, a marker
\* followed by all the text up to the next marker (or the end of the text).
C1_MarkerWithBody ==
    seg_pc = "done" =>
        \A k \in 1..Len(split_texts) :
            \E j \in 1..Len(points) : split_texts[k] = VerseUnit(j)

\* C2: the returned units, concatenated in order, are the whole text of the
\* rows from the first marker on (whitespace aside): no verse content is lost.
C2_SegmentationComplete ==
    seg_pc = "done" =>
        squeeze(flatten(split_texts)) =
            IF points = <<>> THEN <<>> ELSE squeeze(Tail_from(blob, points[1]))

-----------------------------------------------------------------------------
(* What the pipeline and the driver are said to do *)

NamesOf(recs) == [i \in 1..Len(recs) |-> recs[i].name]

\* a list file with a record that has no name
HasNameless(f) ==
    f.kind = "list" /\ \E i \in 1..Len(f.data) : "name" \notin DOMAIN f.data[i]

\* the names a loading of the file yields: none for a file that is not a list
\* of named records
NamesIn(f) ==
    IF f.kind = "list" /\ ~HasNameless(f) THEN NamesOf(f.data) ELSE <<>>

\* the records round 2 returned for the first n batches of this run
RECURSIVE RoundTwoRecords(_)
RoundTwoRecords(n) ==
    IF n = 0 THEN <<>> ELSE RoundTwoRecords(n - 1) \o rounds[n].r2

InExtraction == pc \in {"round1", "round2", "append"}

\* C3: every batch's extraction receives the names that were in the
\* chapter's store when the pipeline started (the set is not refreshed).
C3_ExclusionsLoadedOnce ==
    InExtraction => existing_names = NamesIn(store0)

\* C3, as the code has it: every batch's extraction loads the names anew,
\* and receives the names the store held at the start of the run followed by
\* the names the earlier batches of the run appended (and no name at all when
\* the store held a record without a name, which fails every loading).
C3_ExclusionsReloadedPerBatch ==
    InExtraction =>
        existing_names =
            IF HasNameless(store0) THEN <<>>
            ELSE NamesIn(store0) \o NamesOf(RoundTwoRecords(curr_iter))

\* a later batch is being extracted with a name an earlier batch appended
C3_Witness ==
    /\ pc = "round1"
    /\ curr_iter = 1
    /\ store0 = Missing
    /\ existing_names = <<"Radha">>

\* the least k with BatchSize * k >= n
BatchCount(n) ==
    CHOOSE k \in 0..n : BatchSize * k >= n /\ (k = 0 \/ BatchSize * (k - 1) < n)

\* C4: the batches issued are, in order, the slices [20i, 20i + min(20, N - 20i))
\* of the units; a finished run issued ceil(N/20) of them, all of 20 units but
\* the last, which has N mod 20 (20 when 20 divides N), and together they are
\* the units, each once and in order.
C4_BatchCoverage ==
    LET N == Len(texts)
    IN  /\ \A i \in 1..Len(batches) :
               /\ batches[i] = [j \in 1..Min2(BatchSize, N - BatchSize * (i - 1)) |->
                                   texts[BatchSize * (i - 1) + j]]
               /\ i < BatchCount(N) => Len(batches[i]) = BatchSize
               /\ i = BatchCount(N) =>
                      Len(batches[i]) = IF N % BatchSize = 0 THEN BatchSize
                                        ELSE N % BatchSize
        /\ Len(batches) <= BatchCount(N)
        /\ pc = "returned" =>
               /\ Len(batches) = BatchCount(N)
               /\ flatten(batches) = texts

\* a run over 41 units finished with three batches
C4_Witness ==
    /\ pc = "returned"
    /\ Len(texts) = 2 * BatchSize + 1
    /\ Len(batches) = 3
    /\ Len(batches[3]) = 1

\* C5: extract_names returns exactly the records of round 2, and the store
\* holds, after what it held before the run, the round-2 records of the
\* batches done, and nothing of round 1.
C5_RoundTwoOnly ==
    /\ (pc = "append" /\ ~parsed_none) =>
           /\ found_names = second_response
           /\ found_names = rounds[Len(rounds)].r2
    /\ (pc \in {"loop", "round1", "round2", "append", "returned"} /\ curr_iter > 0) =>
           file = ListFile(read_existing_data(store0) \o RoundTwoRecords(curr_iter))

\* round 1 found Hari, round 2 found Radha, and only Radha was stored
C5_Witness ==
    /\ pc = "loop"
    /\ curr_iter = 1
    /\ rounds[1] = [r1 |-> <<recA>>, r2 |-> <<recB>>]
    /\ file = ListFile(<<recB>>)

OtherErrorRaised == pc = "raised" /\ raised # "ChapterNotFound"

\* C6: when every pipeline call returns or raises ChapterNotFound, the driver
\* comes to its end, and it is at its end exactly once canto exceeds 12.
C6_DriverTerminates ==
    /\ [](drv_pc = "done" => canto = MaxCanto + 1)
    /\ [](canto > MaxCanto => drv_pc \in {"test", "done"})
    /\ <>(drv_pc = "done" \/ OtherErrorRaised)

\* the driver ended after it processed a chapter of canto 1 and one of canto 12
C6_Witness ==
    /\ drv_pc = "done"
    /\ canto = MaxCanto + 1
    /\ store[<<1, 1>>].kind = "list"
    /\ store[<<MaxCanto, 1>>].kind = "list"

\* C7: (canto, chapter) changes only from (c, k) to (c, k+1) after a pipeline
\* call that returned, or to (c+1, 1) after one that raised ChapterNotFound.
C7_DriverTransitions ==
    [][<<canto, chapter>>' # <<canto, chapter>> =>
          \/ /\ pc = "returned"
             /\ <<canto, chapter>>' = <<canto, chapter + 1>>
          \/ /\ pc = "raised"
             /\ raised = "ChapterNotFound"
             /\ <<canto, chapter>>' = <<canto + 1, 1>>]_vars

\* C8: an error of a pipeline call other than ChapterNotFound ends the run: the
\* driver neither moves to another canto nor to another chapter.
C8_OnlyChapterNotFoundRecovered ==
    [][(drv_pc = "call" /\ OtherErrorRaised) =>
          /\ drv_pc' = "aborted"
          /\ <<canto, chapter>>' = <<canto, chapter>>]_vars

\* C9: every returned element is non-empty, has no whitespace at either
\* end, and starts with "TEXT " or "TEXTS ".
C9_MarkerPrefix ==
    seg_pc = "done" =>
        \A k \in 1..Len(split_texts) :
            LET e == split_texts[k]
            IN  /\ e # <<>>
                /\ e[1] \notin Whitespace
                /\ e[Len(e)] \notin Whitespace
                /\ (startswith(e, TEXT_sp) \/ startswith(e, TEXTS_sp))

\* a marker was returned and the piece before it was dropped
C9_Witness ==
    /\ seg_pc = "done"
    /\ split_texts # <<>>
    /\ \E k \in 1..Len(re_split(blob)) :
           re_split(blob)[k] # <<>> /\ ~keeps_piece(re_split(blob)[k])

\* C10: the split points are exactly the places where TEXT <digits> or
\* TEXTS <digits>-<digits> stands as a whole word, each split point gives one
\* captured piece, and that piece is the whole marker (a range is one piece).
C10_MarkerDetection ==
    seg_pc = "done" =>
        /\ SeqRange(points) = MarkerStarts(blob)
        /\ Len(re_split(blob)) = 2 * Len(points) + 1
        /\ \A j \in 1..Len(points) :
               LET m == re_split(blob)[2 * j]
               IN  /\ MarkerWordAt(blob, points[j], points[j] + Len(m))
                   /\ WholeWord(blob, points[j], points[j] + Len(m))
                   /\ m = SubSeq(blob, points[j], points[j] + Len(m) - 1)
                   /\ \E k \in 1..Len(split_texts) : split_texts[k] = m

\* "aTEXT 1 TEXTS 3-5": the embedded marker makes no split point, the
\* standalone range makes one and is returned as one element
C10_Witness ==
    /\ seg_pc = "done"
    /\ blob = <<"a", "T", "E", "X", "T", " ", "1", " ",
                "T", "E", "X", "T", "S", " ", "3", "-", "5">>
    /\ points = <<9>>
    /\ split_texts = << <<"T", "E", "X", "T", "S", " ", "3", "-", "5">> >>

\* the records a file holds for an append: none when it is missing or not JSON
StoredRecords(f) == IF f.kind = "list" THEN f.data ELSE <<>>

IsPrefix(p, q) == Len(p) <= Len(q) /\ \A i \in 1..Len(p) : q[i] = p[i]

C12_LoadNeverFails ==
    [][(pc = "loop" /\ curr_iter < max_iter) =>
          /\ pc' = "round1"
          /\ raised' = "none"
          /\ existing_names' = NamesIn(file)
          /\ store' = store]_vars

\* the file was not JSON: the first load found nothing and went on, the second
\* load yields the name the first batch stored
C12_Witness ==
    /\ store0 = Malformed
    /\ curr_iter = 1
    /\ pc = "round1"
    /\ existing_names = <<"Hari">>

-----------------------------------------------------------------------------
(* The locator, stated on the titles of the catalog *)

DigitChar(d) ==
    CASE d = 0 -> "0" [] d = 1 -> "1" [] d = 2 -> "2" [] d = 3 -> "3" [] d = 4 -> "4"
      [] d = 5 -> "5" [] d = 6 -> "6" [] d = 7 -> "7" [] d = 8 -> "8" [] d = 9 -> "9"

\* the decimal numeral of n
RECURSIVE Numeral(_)
Numeral(n) ==
    IF n < 10 THEN <<DigitChar(n)>> ELSE Numeral(n \div 10) \o <<DigitChar(n % 10)>>

\* "<canto>.<chapter>:"
BareLabel == Numeral(canto) \o <<".">> \o Numeral(chapter) \o <<":">>

\* "SB <canto>.<chapter>:"
BookLabel == <<"S", "B", " ">> \o BareLabel

\* the nodes of the catalog whose title holds the label
NodesHolding(label) ==
    {i \in 1..Len(catalog) :
        \E j \in 1..Len(catalog[i][2]) :
            /\ j + Len(label) - 1 <= Len(catalog[i][2])
            /\ SubSeq(catalog[i][2], j, j + Len(label) - 1) = label}

\* the locator has run in this invocation of the pipeline
Located == pc \notin {"idle", "locate"}

\* what the locator does with the nodes that count as matching: it fails
\* exactly when there is none, before anything is read, sent or stored, and it
\* takes the span from the first of them otherwise
LocatorOn(matching) ==
    Located =>
        /\ raised = "ChapterNotFound" <=> matching = {}
        /\ raised = "ChapterNotFound" =>
              /\ pc = "raised"
              /\ texts = <<>> /\ batches = <<>> /\ events = <<>>
              /\ first_text_record = 0 /\ last_text_record = 0
              /\ file = store0
              /\ key \notin processed
        /\ raised # "ChapterNotFound" =>
              \E i \in matching :
                  /\ \A j \in matching : i <= j
                  /\ first_text_record = catalog[i][3]
                  /\ last_text_record = catalog[i][4]

\* C13: the locator fails exactly when no title holds
\* "<canto>.<chapter>:", and takes the span from the matching node otherwise.
C13_LocatorBareLabel == LocatorOn(NodesHolding(BareLabel))

\* C13, as the code has it: the locator fails exactly when no title holds
\* "SB <canto>.<chapter>:";
\* it fails before any text is read, any request is sent and any file is
\* written; otherwise first_text_record is the record of the first node whose
\* title holds it and last_text_record that node's next_sibling.
C13_LocatorBookLabel == LocatorOn(NodesHolding(BookLabel))

\* SB 2.1 is looked up in a tree that has SB 12.1 only: "2.1:" stands in the
\* title "SB 12.1: a", and the locator fails
C13_Witness ==
    /\ canto = 2
    /\ chapter = 1
    /\ pc = "raised"
    /\ raised = "ChapterNotFound"
    /\ NodesHolding(BareLabel) # {}

\* C14: whenever the locator succeeds, the span it hands to the range query of
\* the verse texts has first_text_record <= last_text_record.
C14_SpanOrdered ==
    (Located /\ raised # "ChapterNotFound") => first_text_record <= last_text_record

-----------------------------------------------------------------------------
(* The history of a run *)

\* the events of batch i, in their order
RECURSIVE EventsOf(_, _)
EventsOf(evs, i) ==
    IF evs = <<>> THEN <<>>
    ELSE IF Head(evs).batch = i THEN <<Head(evs)>> \o EventsOf(Tail(evs), i)
         ELSE EventsOf(Tail(evs), i)

\* the kind and round of every event, in their order
Shape(evs) == [n \in 1..Len(evs) |-> <<evs[n].kind, evs[n].round>>]

\* a batch whose extraction returned and whose records were appended
CompletedShape ==
    <<<<"request", 1>>, <<"response", 1>>, <<"request", 2>>, <<"response", 2>>,
      <<"append", 0>>>>

\* the extraction of the current batch failed
ExtractionFailed == pc = "raised" /\ raised \in {"ServiceFailure", "MalformedResponse"}

\* C15: when the extraction of batch i fails, the chapter's file holds its
\* content of before the run followed by the records of batches 0..i-1 and
\* nothing of batch i; each batch before i was appended once, batch i was
\* submitted once and no batch after i was submitted.
C15_FailureKeepsCompleted ==
    ExtractionFailed =>
        /\ Len(rounds) = curr_iter
        /\ Len(batches) = curr_iter + 1
        /\ file = IF curr_iter = 0 THEN store0
                  ELSE ListFile(StoredRecords(store0) \o RoundTwoRecords(curr_iter))
        /\ \A i \in 0..(curr_iter - 1) : Shape(EventsOf(events, i)) = CompletedShape
        /\ Shape(EventsOf(events, curr_iter)) \in
               {SubSeq(CompletedShape, 1, n) : n \in {1, 3, 4}}
        /\ \A n \in 1..Len(events) : events[n].batch <= curr_iter

\* the file held Hari, batch 0 stored Radha, and a round of batch 1 failed
C15_Witness ==
    /\ ExtractionFailed
    /\ raised = "ServiceFailure"
    /\ curr_iter = 1
    /\ store0 = ListFile(<<recA>>)
    /\ file = ListFile(<<recA, recB>>)

\* C16: the events of a run are, in this order, for batch 0, then batch 1, and
\* so on: the first request, its response, the second request, its response,
\* the append. So both rounds of batch i are over and its records are stored
\* before the first request of batch i+1, the batches are submitted in
\* increasing order of index, and no two extractions overlap.
C16_BatchesSequential ==
    \A n \in 1..Len(events) :
        /\ events[n].batch = (n - 1) \div Len(CompletedShape)
        /\ <<events[n].kind, events[n].round>> =
               CompletedShape[((n - 1) % Len(CompletedShape)) + 1]

\* the first request of batch 1 is out: batch 0 went through both rounds and
\* was appended before it
C16_Witness ==
    /\ pc = "round1"
    /\ curr_iter = 1
    /\ Shape(EventsOf(events, 0)) = CompletedShape
    /\ Shape(EventsOf(events, 1)) = <<<<"request", 1>>>>
    /\ events[Len(events)].contents[1].source = batches[2]

\* the requests among the events of batch i
RequestsOf(i) ==
    LET evs == EventsOf(events, i)
    IN  {n \in 1..Len(evs) : evs[n].kind = "request"}

\* C17: an extract call that returned has sent exactly two requests, the first
\* then the second; a second request comes right after the first response of
\* its batch, and holds the first prompt as it was sent, the content of the
\* first response and the follow-up instruction, in that order; a call whose
\* first round failed has sent no second request.
C17_TwoRounds ==
    /\ pc = "append" =>
          /\ Cardinality(RequestsOf(curr_iter)) = 2
          /\ Shape(EventsOf(events, curr_iter)) = SubSeq(CompletedShape, 1, 4)
    /\ \A n \in 1..Len(events) :
          (events[n].kind = "request" /\ events[n].round = 2) =>
              /\ n > 2
              /\ events[n - 2].kind = "request" /\ events[n - 2].round = 1
              /\ events[n - 1].kind = "response" /\ events[n - 1].round = 1
              /\ events[n - 2].batch = events[n].batch
              /\ events[n - 1].batch = events[n].batch
              /\ events[n].contents =
                     <<events[n - 2].contents[1], events[n - 1].contents[1],
                       [role |-> "user", prompt |-> "second", source |-> <<>>,
                        exclude |-> <<>>, records |-> <<>>]>>
              /\ events[n - 2].contents[1].role = "user"
              /\ events[n - 2].contents[1].source = batches[events[n].batch + 1]
              /\ events[n - 1].contents[1].role = "model"
    /\ (ExtractionFailed /\ events[Len(events)].round = 1) =>
          Cardinality(RequestsOf(curr_iter)) = 1

\* both rounds answered: Hari in the first, Radha in the second
C17_Witness ==
    /\ pc = "append"
    /\ ~parsed_none
    /\ first_response = <<recA>>
    /\ second_response = <<recB>>
    /\ Len(events) = 4
    /\ events[3].contents[2].records = <<recA>>

-----------------------------------------------------------------------------
(* Markup stripping, stated on the brackets of a row *)

\* a "<" with a ">" somewhere after it
HasTag(s) == \E i \in 1..Len(s) : \E j \in (i + 1)..Len(s) : s[i] = "<" /\ s[j] = ">"

\* a tag starts at s[i]: the tags are taken from left to right, each from a
\* "<" outside the tags before it up to the nearest ">" after it
RECURSIVE TagStart(_, _)
TagStart(s, i) ==
    /\ s[i] = "<"
    /\ \E j \in (i + 1)..Len(s) : s[j] = ">"
    /\ \A h \in 1..(i - 1) :
           TagStart(s, h) => \E j \in (h + 1)..(i - 1) : s[j] = ">"

\* s[p] is part of a tag
InTag(s, p) ==
    \E i \in 1..p : TagStart(s, i) /\ \A j \in (i + 1)..(p - 1) : s[j] # ">"

\* the text of s outside its tags
OutsideTags(s) ==
    LET keep == {p \in 1..Len(s) : ~InTag(s, p)}
        RECURSIVE pick(_)
        pick(p) == IF p > Len(s) THEN <<>>
                   ELSE IF p \in keep THEN <<s[p]>> \o pick(p + 1) ELSE pick(p + 1)
    IN  pick(1)

\* the spaces and line breaks taken out
RECURSIVE Letters(_)
Letters(s) ==
    IF s = <<>> THEN <<>>
    ELSE IF Head(s) \in {" ", "\n"} THEN Letters(Tail(s))
         ELSE <<Head(s)>> \o Letters(Tail(s))

\* C18: in every cleaned row no tag delimited by "<" and ">" is left, and the
\* text of the raw row outside its tags is there in order (the spaces that
\* replace the tags aside).
C18_MarkupStripped ==
    seg_pc = "stripped" =>
        \A i \in 1..Len(rows) :
            /\ ~HasTag(formatted[i])
            /\ Letters(formatted[i]) = Letters(OutsideTags(rows[i]))

-----------------------------------------------------------------------------
(* The chapters the driver processes *)

\* a title of the catalog holds "SB <c>.<k>:"
TitleInTree(c, k) ==
    LET label == <<"S", "B", " ">> \o Numeral(c) \o <<".">> \o Numeral(k) \o <<":">>
    IN  \E i \in 1..Len(catalog) :
            \E j \in 1..Len(catalog[i][2]) :
                /\ j + Len(label) - 1 <= Len(catalog[i][2])
                /\ SubSeq(catalog[i][2], j, j + Len(label) - 1) = label

\* the smallest chapter number of canto c that is not located
FirstGap(c) ==
    CHOOSE k \in 1..(Len(catalog) + 1) :
        ~TitleInTree(c, k) /\ \A j \in 1..(k - 1) : TitleInTree(c, j)

\* C19: when the driver is through the cantos, the chapters it has processed
\* are, for each canto c of 1..12, exactly the chapters 1..k-1, k the smallest
\* chapter number not located in c; a chapter after a gap is not among them.
C19_ChaptersUpToFirstGap ==
    drv_pc = "done" =>
        processed = {ck \in (1..MaxCanto) \X (1..Len(catalog)) : ck[2] < FirstGap(ck[1])}

\* C20: a pipeline invocation that located its chapter and got no verse unit
\* returns with no batch: no request was sent and the chapter's file is as it
\* was (not created when there was none); the driver then goes on to the next
\* chapter of the same canto, leaving every file as it is.
C20_EmptyChapterSucceeds ==
    [][(drv_pc = "call" /\ pc = "returned" /\ texts = <<>>) =>
          /\ key \in processed
          /\ max_iter = 0
          /\ batches = <<>>
          /\ events = <<>>
          /\ file = store0
          /\ canto' = canto
          /\ chapter' = chapter + 1
          /\ drv_pc' = "test"
          /\ store' = store]_vars

\* SB 1.2 was located, has no verse unit and no file, and the call returned
C20_Witness ==
    /\ drv_pc = "call"
    /\ canto = 1
    /\ chapter = 2
    /\ pc = "returned"
    /\ key \in processed
    /\ texts = <<>>
    /\ file = Missing

====
